---- MODULE Spec2Model ----
(***************************************************************************)
(* A model of the email processing system: the order processor and its     *)
(* stock ledger (src/modules/order_processor.py), the product vector store *)
(* (src/modules/rag_utils.py) and the orchestrator (src/main.py).          *)
(*                                                                         *)
(* Six specifications share the variables:                                 *)
(*   Spec            any sequence of OrderProcessor.process_order calls    *)
(*   SpecPipeline    EmailProcessor.process_emails, one run                *)
(*   SpecStore       any sequence of build_vector_store / search_products  *)
(*   SpecConc        two process_order executions interleaved on a ledger  *)
(*   SpecSystem      process_order and search_products calls on one        *)
(*                   EmailProcessor, in any order                          *)
(*   SpecAnyQuantity process_order calls on unvalidated integer quantities *)
(***************************************************************************)
EXTENDS Integers, Sequences, FiniteSets, TLC

(***************************************************************************)
(* Bounds of the model.                                                    *)
(***************************************************************************)
MaxStock == 3
MaxQty == 2
MaxLines == 2
NumEmails == 2
PipelineMaxLines == 1
MaxVec == 2
ConcMaxLines == 1

(***************************************************************************)
(* Program constants (src/config.py).                                      *)
(***************************************************************************)
CHUNK_SIZE == 1000
CHUNK_OVERLAP == 200
TOP_K_RESULTS == 3

(***************************************************************************)
(* Values.                                                                 *)
(***************************************************************************)
\* self.vector_store = None, and a FAISS index over the given chunks.
None == [is_none |-> TRUE, index |-> <<>>]
Faiss(chunks) == [is_none |-> FALSE, index |-> chunks]

\* A file under outputs/ that was not written, and one holding the given rows.
NoFile == [exists |-> FALSE, rows |-> <<>>]
File(df) == [exists |-> TRUE, rows |-> df]

\* The catalog's rows without their stock and description; product_id is the
\* unique key.
CatalogRows ==
    << [product_id |-> 1, name |-> "Blue Hat"],
       [product_id |-> 2, name |-> "Red Scarf"] >>

ProductIds == {CatalogRows[j].product_id : j \in DOMAIN CatalogRows}

\* The product names the extraction may return.
ExtractedNames == {"blue hat", "RED SCARF", "Nonexistent Product"}

\* str.lower() on the names of the model.
Lower(s) ==
    CASE s = "Blue Hat" -> "blue hat"
      [] s = "blue hat" -> "blue hat"
      [] s = "Red Scarf" -> "red scarf"
      [] s = "RED SCARF" -> "red scarf"
      [] s = "Nonexistent Product" -> "nonexistent product"
      [] OTHER -> s

\* The lengths, in characters, of a product's rendered text (create_documents):
\* one that fits a chunk and one that does not.
ShortText == CHUNK_SIZE \div 2
LongText == CHUNK_SIZE + CHUNK_SIZE \div 2

\* A table of the first n catalog rows with the given stocks and text lengths.
Table(n, st, tl) ==
    [j \in 1..n |->
        [product_id |-> CatalogRows[j].product_id,
         name |-> CatalogRows[j].name,
         stock |-> st[j],
         text_len |-> tl[j]]]

\* The catalogs a run may load: every row with a stock of 0..MaxStock.
Catalogs ==
    { Table(Len(CatalogRows), st, [j \in DOMAIN CatalogRows |-> ShortText]) :
          st \in [DOMAIN CatalogRows -> 0..MaxStock] }

\* The well-formed order lines: a product name and a positive quantity.
PositiveQuantities == 1..MaxQty

Items(Q) == [product_name : ExtractedNames, quantity : Q]

\* The lists json.loads may yield, of at most n lines with quantities in Q.
ItemLists(Q, n) == UNION {[1..m -> Items(Q)] : m \in 0..n}

VARIABLES
    products_df,      \* EmailProcessor.products_df: the catalog as loaded
    op_products_df,   \* OrderProcessor.products_df: the ledger (a copy)
    op_pc,            \* process_order: "idle", "loop" (in the call), "raised"
    email_id,         \* process_order's argument
    order_items,      \* process_order's local: the extracted lines
    k,                \* process_order's loop position in order_items
    order_status,     \* process_order's local: the status entries so far
    calls,            \* process_order calls made so far (Spec)
    allocated,        \* history: per product_id, the summed quantity of the
                      \* 'created' entries of every table returned so far
    pc,               \* process_emails: "start", "loop", "order", "done", "failed"
    classifications,  \* process_emails' local: email_id -> category
    i,                \* process_emails' loop position in emails_df
    sheets,           \* the files under outputs/, by sheet key
    order_responses,  \* process_emails' local
    inquiry_responses,\* process_emails' local
    status_emails,    \* history: the emails whose process_order call returned
                      \* at least one status entry
    vector_store,     \* ProductVectorStore.vector_store: None or the index
    store_out,        \* the outcome of the latest call on the store
    built,            \* history: a build_vector_store call has completed
    build_failed,     \* history: a build_vector_store call has raised
    first_search,     \* history: the first search_products call that returned
                      \* on the current index
    repeated,         \* history: the latest call on the store was a search
                      \* with first_search's query, first_search made before
                      \* any allocation and this one after
    t_pc,             \* SpecConc, per thread: "idle", "match", "load", "store", "done"
    t_items,          \* per thread: process_order's order_items
    t_k,              \* per thread: the loop position
    t_status,         \* per thread: process_order's order_status
    t_local,          \* per thread: product_id, current_stock, quantity
    t_tmp             \* per thread: the stock read by the in-place subtraction

opVars == <<op_products_df, op_pc, email_id, order_items, k, order_status,
            allocated>>

pipeVars == <<pc, classifications, i, sheets, order_responses,
              inquiry_responses, status_emails>>

storeVars == <<vector_store, store_out, built, build_failed, first_search,
              repeated>>

concVars == <<t_pc, t_items, t_k, t_status, t_local, t_tmp>>

vars == <<products_df, opVars, calls, pipeVars, storeVars, concVars>>

(***************************************************************************)
(* OrderProcessor.process_order, one loop iteration.                       *)
(***************************************************************************)

\* self.products_df[self.products_df["name"].str.lower() == product_name.lower()]
MatchingRows(df, product_name) ==
    SelectSeq(df, LAMBDA row : Lower(row.name) = Lower(product_name))

\* Mutant of StockAvailable: any stock left is taken to cover the line.
StockAvailable_AnyLeft(current_stock, quantity) == current_stock > 0

\* Mutant of StockAvailable: the comparison is strict.
StockAvailable_Strict(current_stock, quantity) == current_stock > quantity

\* if current_stock >= quantity
StockAvailable(current_stock, quantity) == current_stock >= quantity

\* Mutant of DecrementStock: the row mask is lost, every row is decremented.
DecrementStock_AllRows(df, product_id, quantity) ==
    [j \in DOMAIN df |-> [df[j] EXCEPT !.stock = @ - quantity]]

\* self.products_df.loc[self.products_df["product_id"] == product_id, "stock"] -= quantity
DecrementStock(df, product_id, quantity) ==
    [j \in DOMAIN df |->
        IF df[j].product_id = product_id
        THEN [df[j] EXCEPT !.stock = @ - quantity]
        ELSE df[j]]

\* Mutant of SkipUnmatched: break instead of continue.
SkipUnmatched_Breaks(df, status_list, items, kk) ==
    [df |-> df, order_status |-> status_list, k |-> Len(items) + 1]

\* if product.empty: logger.warning(...); continue
SkipUnmatched(df, status_list, items, kk) ==
    [df |-> df, order_status |-> status_list, k |-> kk + 1]

\* Mutant of ProcessItem: the entry is put at the head of the status list.
ProcessItem_Prepends(df, status_list, eid, items, kk) ==
    LET item == items[kk]
        product == MatchingRows(df, item.product_name) IN
    IF product = <<>>
    THEN SkipUnmatched(df, status_list, items, kk)
    ELSE LET product_id == product[1].product_id
             current_stock == product[1].stock
             available == StockAvailable(current_stock, item.quantity)
             entry == [email_id |-> eid,
                       product_id |-> product_id,
                       quantity |-> item.quantity,
                       status |-> IF available THEN "created" ELSE "out_of_stock"]
         IN  [df |-> IF available
                     THEN DecrementStock(df, product_id, item.quantity)
                     ELSE df,
              order_status |-> <<entry>> \o status_list,
              k |-> kk + 1]

\* The body of `for item in order_items` for item = items[kk]: the table, the
\* status list and the loop position after it.
ProcessItem(df, status_list, eid, items, kk) ==
    LET item == items[kk]
        product == MatchingRows(df, item.product_name) IN
    IF product = <<>>
    THEN SkipUnmatched(df, status_list, items, kk)
    ELSE LET product_id == product[1].product_id
             current_stock == product[1].stock
             available == StockAvailable(current_stock, item.quantity)
             entry == [email_id |-> eid,
                       product_id |-> product_id,
                       quantity |-> item.quantity,
                       status |-> IF available THEN "created" ELSE "out_of_stock"]
         IN  [df |-> IF available
                     THEN DecrementStock(df, product_id, item.quantity)
                     ELSE df,
              order_status |-> Append(status_list, entry),
              k |-> kk + 1]

RECURSIVE SumCreated(_, _)
\* The summed quantity of the 'created' entries for product p in a status list.
SumCreated(status_list, p) ==
    IF status_list = <<>> THEN 0
    ELSE (IF Head(status_list).product_id = p /\ Head(status_list).status = "created"
          THEN Head(status_list).quantity ELSE 0)
         + SumCreated(Tail(status_list), p)

\* order_items = self.extract_order_items(email_body): the call returns a list.
ExtractOrderItems(eid, Q, n) ==
    /\ op_pc \in {"idle", "raised"}
    /\ \E items \in ItemLists(Q, n) :
          /\ order_items' = items
          /\ order_status' = <<>>
          /\ k' = 1
          /\ email_id' = eid
          /\ op_pc' = "loop"
    /\ UNCHANGED <<products_df, op_products_df, allocated>>

\* json.loads raises: extract_order_items logs and re-raises, process_order too.
ExtractRaises(eid) ==
    /\ op_pc \in {"idle", "raised"}
    /\ email_id' = eid
    /\ order_items' = <<>>
    /\ order_status' = <<>>
    /\ k' = 1
    /\ op_pc' = "raised"
    /\ UNCHANGED <<products_df, op_products_df, allocated>>

\* Mutant of CallerTable: the order processor keeps the caller's table itself
\* (no copy), so a write to the ledger is a write to the catalog.
CallerTable_Aliased(catalog, ledger) == ledger

\* self.products_df = products_df.copy(): the ledger is another object than the
\* table the caller passed, which a write to the ledger leaves as it was.
CallerTable(catalog, ledger) == catalog

\* One iteration of the loop over order_items.
ProcessLine ==
    /\ op_pc = "loop"
    /\ k <= Len(order_items)
    /\ LET r == ProcessItem(op_products_df, order_status, email_id, order_items, k) IN
          /\ op_products_df' = r.df
          /\ order_status' = r.order_status
          /\ k' = r.k
          /\ products_df' = CallerTable(products_df, r.df)
    /\ UNCHANGED <<op_pc, email_id, order_items, allocated>>

\* The loop is over: order_status is the table process_order returns.
AtReturn == op_pc = "loop" /\ k > Len(order_items)

\* return pd.DataFrame(order_status), self.products_df: the table goes to the
\* caller and the call's locals are gone.
ReturnOrder ==
    /\ AtReturn
    /\ op_pc' = "idle"
    /\ allocated' = [p \in ProductIds |-> allocated[p] + SumCreated(order_status, p)]
    /\ order_items' = <<>>
    /\ order_status' = <<>>
    /\ k' = 1
    /\ UNCHANGED <<products_df, op_products_df, email_id>>

(***************************************************************************)
(* Spec: an OrderProcessor built on a catalog, then process_order called   *)
(* any number of times (at most NumEmails).                                *)
(***************************************************************************)

\* OrderProcessor.__init__: self.products_df = products_df.copy()
OrderProcessorInit(df) ==
    /\ op_products_df = df
    /\ op_pc = "idle"
    /\ email_id = 0
    /\ order_items = <<>>
    /\ k = 1
    /\ order_status = <<>>
    /\ allocated = [p \in ProductIds |-> 0]

\* process_emails has not been entered: no output file exists.
PipelineInit ==
    /\ pc = "start"
    /\ classifications = <<>>
    /\ i = 1
    /\ sheets = [email_classification |-> NoFile, order_status |-> NoFile,
                 order_response |-> NoFile, inquiry_response |-> NoFile]
    /\ order_responses = <<>>
    /\ inquiry_responses = <<>>
    /\ status_emails = {}

\* No search_products call has returned on the current index.
NoSearch == [done |-> FALSE, query |-> 0, results |-> <<>>, fresh |-> FALSE]

\* ProductVectorStore.__init__: self.vector_store = None
StoreInit ==
    /\ vector_store = None
    /\ store_out = [call |-> "none"]
    /\ built = FALSE
    /\ build_failed = FALSE
    /\ first_search = NoSearch
    /\ repeated = FALSE

Threads == {1, 2}

\* No thread has entered process_order.
ConcInit ==
    /\ t_pc = [t \in Threads |-> "idle"]
    /\ t_items = [t \in Threads |-> <<>>]
    /\ t_k = [t \in Threads |-> 1]
    /\ t_status = [t \in Threads |-> <<>>]
    /\ t_local = [t \in Threads |-> [product_id |-> 0, current_stock |-> 0, quantity |-> 0]]
    /\ t_tmp = [t \in Threads |-> 0]

Init ==
    /\ products_df \in Catalogs
    /\ OrderProcessorInit(products_df)
    /\ calls = 0
    /\ PipelineInit
    /\ StoreInit
    /\ ConcInit

CallProcessOrder ==
    /\ calls < NumEmails
    /\ calls' = calls + 1
    /\ ExtractOrderItems(calls + 1, PositiveQuantities, MaxLines)
    /\ UNCHANGED <<pipeVars, storeVars, concVars>>

CallProcessOrderRaises ==
    /\ calls < NumEmails
    /\ calls' = calls + 1
    /\ ExtractRaises(calls + 1)
    /\ UNCHANGED <<pipeVars, storeVars, concVars>>

Next ==
    \/ CallProcessOrder
    \/ CallProcessOrderRaises
    \/ ProcessLine /\ UNCHANGED <<calls, pipeVars, storeVars, concVars>>
    \/ ReturnOrder /\ UNCHANGED <<calls, pipeVars, storeVars, concVars>>

Spec == Init /\ [][Next]_vars

(***************************************************************************)
(* SpecPipeline: EmailProcessor.process_emails, one run over NumEmails     *)
(* emails whose email_id is their row number.                              *)
(***************************************************************************)

Emails == 1..NumEmails

\* What the classification call may answer.
RawLabels == {"order_request", "product_inquiry", " Order_Request ", "unsure"}

\* response.choices[0].message.content.strip().lower() on the answers of the model.
StripLower(raw) ==
    CASE raw = " Order_Request " -> "order_request"
      [] OTHER -> raw

\* Mutant of ClassifyEmail: the answer is passed on without the default.
ClassifyEmail_NoDefault(raw) == StripLower(raw)

\* EmailClassifier.classify_email: any other text is a product inquiry.
ClassifyEmail(raw) ==
    LET classification == StripLower(raw) IN
    IF classification \notin {"order_request", "product_inquiry"}
    THEN "product_inquiry"
    ELSE classification

\* write_sheet: df.to_csv(output_path, index=False) replaces the file.
WriteSheet(files, sheet_key, df) == [files EXCEPT ![sheet_key] = File(df)]

\* The catalog of the run: every product fully stocked.
FullCatalog ==
    CHOOSE c \in Catalogs : \A j \in DOMAIN c : c[j].stock = MaxStock

InitPipeline ==
    /\ products_df = FullCatalog
    /\ OrderProcessorInit(products_df)
    /\ calls = 0
    /\ PipelineInit
    /\ StoreInit
    /\ ConcInit

\* Step 1: classifications = self.classifier.process_emails(self.emails_df);
\* write_sheet(classifications, ...).
ClassifyEmails ==
    /\ pc = "start"
    /\ \E raw \in [Emails -> RawLabels] :
          LET result == [e \in Emails |-> ClassifyEmail(raw[e])] IN
          /\ classifications' = result
          /\ sheets' = WriteSheet(sheets, "email_classification", result)
    /\ pc' = "loop"
    /\ i' = 1
    /\ UNCHANGED <<products_df, opVars, calls, storeVars, concVars, order_responses,
                   inquiry_responses, status_emails>>

\* A classification call raises: process_emails logs and re-raises.
ClassifyRaises ==
    /\ pc = "start"
    /\ pc' = "failed"
    /\ UNCHANGED <<products_df, opVars, calls, storeVars, concVars, classifications, i, sheets,
                   order_responses, inquiry_responses, status_emails>>

\* Step 2, an order email: process_order is entered and its extraction returns.
OrderCall ==
    /\ pc = "loop"
    /\ i <= NumEmails
    /\ classifications[i] = "order_request"
    /\ ExtractOrderItems(i, PositiveQuantities, PipelineMaxLines)
    /\ pc' = "order"
    /\ UNCHANGED <<calls, storeVars, concVars, classifications, i, sheets,
                   order_responses, inquiry_responses, status_emails>>

\* Step 2, an order email whose extraction raises: process_order re-raises
\* and so does process_emails (main.py:100-102); main() re-raises too.
OrderCallRaises ==
    /\ pc = "loop"
    /\ i <= NumEmails
    /\ classifications[i] = "order_request"
    /\ ExtractRaises(i)
    /\ pc' = "failed"
    /\ UNCHANGED <<calls, storeVars, concVars, classifications, i, sheets,
                   order_responses, inquiry_responses, status_emails>>

\* process_order returns; write_sheet(order_status, "order-status"); then
\* generate_order_response, which returns (the response is appended and the
\* loop goes to the next email) or raises.
OrderReturn ==
    /\ pc = "order"
    /\ ReturnOrder
    /\ sheets' = WriteSheet(sheets, "order_status", order_status)
    /\ status_emails' = IF order_status # <<>> THEN status_emails \cup {i}
                        ELSE status_emails
    /\ \/ /\ order_responses' =
                Append(order_responses, [email_id |-> i, content |-> "order response"])
          /\ i' = i + 1
          /\ pc' = "loop"
       \/ /\ pc' = "failed"
          /\ UNCHANGED <<order_responses, i>>
    /\ UNCHANGED <<calls, storeVars, concVars, classifications, inquiry_responses>>

\* Step 2, an inquiry email: process_inquiry returns its response or raises.
Inquiry ==
    /\ pc = "loop"
    /\ i <= NumEmails
    /\ classifications[i] # "order_request"
    /\ \/ /\ inquiry_responses' =
                Append(inquiry_responses, [email_id |-> i, content |-> "inquiry response"])
          /\ i' = i + 1
          /\ pc' = "loop"
       \/ /\ pc' = "failed"
          /\ UNCHANGED <<inquiry_responses, i>>
    /\ UNCHANGED <<products_df, opVars, calls, storeVars, concVars, classifications, sheets,
                   order_responses, status_emails>>

\* ResponseGenerator.process_responses: one formatted row per response.
ProcessResponses(responses) ==
    [n \in DOMAIN responses |->
        [email_id |-> responses[n].email_id, response |-> "formatted"]]

\* Step 3: the response sheets are written, the order one first; a formatting
\* call that raises ends the run where it is.
SaveResponses ==
    /\ pc = "loop"
    /\ i > NumEmails
    /\ LET after_order ==
              IF order_responses # <<>>
              THEN WriteSheet(sheets, "order_response", ProcessResponses(order_responses))
              ELSE sheets
           after_inquiry ==
              IF inquiry_responses # <<>>
              THEN WriteSheet(after_order, "inquiry_response",
                              ProcessResponses(inquiry_responses))
              ELSE after_order
       IN \/ /\ sheets' = after_inquiry
             /\ pc' = "done"
          \/ /\ order_responses # <<>>
             /\ UNCHANGED sheets
             /\ pc' = "failed"
          \/ /\ inquiry_responses # <<>>
             /\ sheets' = after_order
             /\ pc' = "failed"
    /\ UNCHANGED <<products_df, opVars, calls, storeVars, concVars, classifications, i,
                   order_responses, inquiry_responses, status_emails>>

NextPipeline ==
    \/ ClassifyEmails
    \/ ClassifyRaises
    \/ OrderCall
    \/ OrderCallRaises
    \/ ProcessLine /\ UNCHANGED <<calls, pipeVars, storeVars, concVars>>
    \/ OrderReturn
    \/ Inquiry
    \/ SaveResponses

SpecPipeline == InitPipeline /\ [][NextPipeline]_vars

(***************************************************************************)
(* SpecStore: a ProductVectorStore, with build_vector_store and            *)
(* search_products called in any order.                                    *)
(***************************************************************************)

\* The tables build_vector_store may be given: none, one or all of the
\* catalog's rows, fully stocked, each text short or long.
StoreCatalogs ==
    UNION { { Table(n, [j \in 1..n |-> MaxStock], tl) :
                  tl \in [1..n -> {ShortText, LongText}] } :
            n \in 0..Len(CatalogRows) }

\* A text and its embedding: a point of 0..MaxVec. A query is given as the
\* point its text embeds to.
Vectors == 0..MaxVec

\* RecursiveCharacterTextSplitter(chunk_size, chunk_overlap): the number of
\* chunks of a text of the given length, each window starting
\* chunk_size - chunk_overlap after the one before.
ChunkCount(text_len) ==
    IF text_len <= CHUNK_SIZE THEN 1
    ELSE 1 + ((text_len - CHUNK_SIZE) + (CHUNK_SIZE - CHUNK_OVERLAP) - 1)
                 \div (CHUNK_SIZE - CHUNK_OVERLAP)

\* create_documents: one Document per row, with the row's metadata.
CreateDocuments(df) ==
    [j \in DOMAIN df |->
        [text_len |-> df[j].text_len,
         metadata |-> [product_id |-> df[j].product_id,
                       name |-> df[j].name,
                       stock |-> df[j].stock]]]

RECURSIVE SplitDocuments(_)
\* text_splitter.split_documents: every chunk carries its document's metadata.
SplitDocuments(documents) ==
    IF documents = <<>> THEN <<>>
    ELSE [c \in 1..ChunkCount(Head(documents).text_len) |->
             [metadata |-> Head(documents).metadata]]
         \o SplitDocuments(Tail(documents))

\* FAISS.from_documents: the chunks stored with their embeddings.
FromDocuments(split_docs, embedding) ==
    [c \in DOMAIN split_docs |->
        [metadata |-> split_docs[c].metadata, vector |-> embedding[c]]]

\* Mutant of StoreAfterFailedBuild: the chunks embedded before the failure
\* are kept as the index.
StoreAfterFailedBuild_Partial(store, split_docs) ==
    IF split_docs = <<>> THEN store
    ELSE Faiss(FromDocuments(SubSeq(split_docs, 1, Len(split_docs) - 1),
                             [c \in 1..(Len(split_docs) - 1) |-> 0]))

\* build_vector_store when FAISS.from_documents raises: the assignment of
\* line 82 is not reached.
StoreAfterFailedBuild(store, split_docs) == store

\* build_vector_store returns: every chunk was embedded.
BuildVectorStore ==
    /\ LET split_docs == SplitDocuments(CreateDocuments(products_df)) IN
          /\ split_docs # <<>>
          /\ \E embedding \in [DOMAIN split_docs -> Vectors] :
                vector_store' = Faiss(FromDocuments(split_docs, embedding))
    /\ store_out' = [call |-> "build", kind |-> "returned"]
    /\ built' = TRUE
    /\ first_search' = NoSearch
    /\ repeated' = FALSE
    /\ UNCHANGED build_failed

\* build_vector_store raises: an embedding call fails, or there is no chunk
\* to size the index with (FAISS.from_documents on an empty list).
BuildRaises ==
    /\ LET split_docs == SplitDocuments(CreateDocuments(products_df)) IN
          vector_store' = StoreAfterFailedBuild(vector_store, split_docs)
    /\ store_out' = [call |-> "build", kind |-> "raised", error |-> "Exception"]
    /\ build_failed' = TRUE
    /\ repeated' = FALSE
    /\ UNCHANGED <<built, first_search>>

Distance(vector, query) ==
    IF vector >= query THEN vector - query ELSE query - vector

\* vector_store.similarity_search(query, k): the k chunks nearest to the
\* query, nearest first, chunks at the same distance in index order.
SimilaritySearch(index, query, kk) ==
    LET Before(a, b) ==
            \/ Distance(index[a].vector, query) < Distance(index[b].vector, query)
            \/ /\ Distance(index[a].vector, query) = Distance(index[b].vector, query)
               /\ a < b
        Rank(a) == Cardinality({b \in DOMAIN index : Before(b, a)}) + 1
        size == IF Len(index) < kk THEN Len(index) ELSE kk
    IN  [r \in 1..size |-> index[CHOOSE a \in DOMAIN index : Rank(a) = r]]

\* The stock of product_id in the order processor's ledger.
LedgerStock(product_id) ==
    LET j == CHOOSE j \in DOMAIN op_products_df :
                 op_products_df[j].product_id = product_id
    IN  op_products_df[j].stock

\* Mutant of SearchResults: the stock reported is read from the live ledger
\* instead of the chunk's metadata.
SearchResults_LiveStock(docs) ==
    [r \in DOMAIN docs |->
        [product_id |-> docs[r].metadata.product_id,
         name |-> docs[r].metadata.name,
         stock |-> LedgerStock(docs[r].metadata.product_id),
         relevance_score |-> 0]]

\* The loop of search_products: one result per retrieved chunk.
SearchResults(docs) ==
    [r \in DOMAIN docs |->
        [product_id |-> docs[r].metadata.product_id,
         name |-> docs[r].metadata.name,
         stock |-> docs[r].metadata.stock,
         relevance_score |-> 0]]

\* search_products returns.
SearchProducts ==
    /\ vector_store # None
    /\ \E query \in Vectors :
          LET results == SearchResults(
                  SimilaritySearch(vector_store.index, query, TOP_K_RESULTS))
          IN  /\ store_out' = [call |-> "search", kind |-> "returned",
                               query |-> query, results |-> results]
              /\ first_search' =
                    IF first_search.done THEN first_search
                    ELSE [done |-> TRUE, query |-> query, results |-> results,
                          fresh |-> op_products_df = products_df]
              /\ repeated' = /\ first_search.done
                             /\ first_search.query = query
                             /\ first_search.fresh
                             /\ op_products_df # products_df
    /\ UNCHANGED <<vector_store, built, build_failed>>

\* similarity_search raises (the query's embedding call fails): search_products
\* logs and re-raises.
SearchRaises ==
    /\ vector_store # None
    /\ store_out' = [call |-> "search", kind |-> "raised", error |-> "Exception"]
    /\ repeated' = FALSE
    /\ UNCHANGED <<vector_store, built, build_failed, first_search>>

\* if not self.vector_store: raise ValueError("Vector store not initialized...")
SearchRaisesNotReady ==
    /\ vector_store = None
    /\ store_out' = [call |-> "search", kind |-> "raised", error |-> "ValueError"]
    /\ repeated' = FALSE
    /\ UNCHANGED <<vector_store, built, build_failed, first_search>>

InitStore ==
    /\ products_df \in StoreCatalogs
    /\ OrderProcessorInit(products_df)
    /\ calls = 0
    /\ PipelineInit
    /\ StoreInit
    /\ ConcInit

NextStore ==
    \/ BuildVectorStore /\ UNCHANGED <<products_df, opVars, calls, pipeVars, concVars>>
    \/ BuildRaises /\ UNCHANGED <<products_df, opVars, calls, pipeVars, concVars>>
    \/ SearchProducts /\ UNCHANGED <<products_df, opVars, calls, pipeVars, concVars>>
    \/ SearchRaises /\ UNCHANGED <<products_df, opVars, calls, pipeVars, concVars>>
    \/ SearchRaisesNotReady /\ UNCHANGED <<products_df, opVars, calls, pipeVars, concVars>>

SpecStore == InitStore /\ [][NextStore]_vars

(***************************************************************************)
(* SpecConc: two threads, each in one process_order call on the same       *)
(* OrderProcessor. The steps of a loop iteration that touch the shared     *)
(* table are separate: the code takes no lock.                             *)
(***************************************************************************)

\* The value the in-place subtraction writes back into the rows of product_id.
StoreStock(df, product_id, value) ==
    [j \in DOMAIN df |->
        IF df[j].product_id = product_id
        THEN [df[j] EXCEPT !.stock = value]
        ELSE df[j]]

\* order_items = self.extract_order_items(email_body)
T_Extract(t) ==
    /\ t_pc[t] = "idle"
    /\ \E items \in ItemLists(PositiveQuantities, ConcMaxLines) :
          t_items' = [t_items EXCEPT ![t] = items]
    /\ t_pc' = [t_pc EXCEPT ![t] = "match"]
    /\ UNCHANGED <<products_df, opVars, t_k, t_status, t_local, t_tmp>>

\* Lines 89-105 and 112-120: the rows matching the name are copied out of the
\* table, the first one's stock is compared with the quantity; a refused line
\* gets its entry at once.
T_Match(t) ==
    /\ t_pc[t] = "match"
    /\ t_k[t] <= Len(t_items[t])
    /\ LET item == t_items[t][t_k[t]]
           product == MatchingRows(op_products_df, item.product_name)
       IN IF product = <<>>
          THEN /\ t_k' = [t_k EXCEPT ![t] = @ + 1]
               /\ UNCHANGED <<t_pc, t_status, t_local>>
          ELSE IF StockAvailable(product[1].stock, item.quantity)
          THEN /\ t_local' = [t_local EXCEPT ![t] =
                                 [product_id |-> product[1].product_id,
                                  current_stock |-> product[1].stock,
                                  quantity |-> item.quantity]]
               /\ t_pc' = [t_pc EXCEPT ![t] = "load"]
               /\ UNCHANGED <<t_k, t_status>>
          ELSE /\ t_status' = [t_status EXCEPT ![t] =
                                 Append(@, [email_id |-> t,
                                            product_id |-> product[1].product_id,
                                            quantity |-> item.quantity,
                                            status |-> "out_of_stock"])]
               /\ t_k' = [t_k EXCEPT ![t] = @ + 1]
               /\ UNCHANGED <<t_pc, t_local>>
    /\ UNCHANGED <<products_df, opVars, t_items, t_tmp>>

\* Lines 108-111, first half: `df.loc[mask, "stock"] -= quantity` reads the stock.
T_Load(t) ==
    /\ t_pc[t] = "load"
    /\ \E j \in DOMAIN op_products_df :
          /\ op_products_df[j].product_id = t_local[t].product_id
          /\ t_tmp' = [t_tmp EXCEPT ![t] = op_products_df[j].stock]
    /\ t_pc' = [t_pc EXCEPT ![t] = "store"]
    /\ UNCHANGED <<products_df, opVars, t_items, t_k, t_status, t_local>>

\* Lines 108-120, second half: the difference is written back, and the
\* 'created' entry is appended.
T_Store(t) ==
    /\ t_pc[t] = "store"
    /\ op_products_df' = StoreStock(op_products_df, t_local[t].product_id,
                                    t_tmp[t] - t_local[t].quantity)
    /\ t_status' = [t_status EXCEPT ![t] =
                       Append(@, [email_id |-> t,
                                  product_id |-> t_local[t].product_id,
                                  quantity |-> t_local[t].quantity,
                                  status |-> "created"])]
    /\ t_k' = [t_k EXCEPT ![t] = @ + 1]
    /\ t_pc' = [t_pc EXCEPT ![t] = "match"]
    /\ UNCHANGED <<products_df, op_pc, email_id, order_items, k, order_status,
                   allocated, t_items, t_local, t_tmp>>

\* return pd.DataFrame(order_status), self.products_df
T_Return(t) ==
    /\ t_pc[t] = "match"
    /\ t_k[t] > Len(t_items[t])
    /\ t_pc' = [t_pc EXCEPT ![t] = "done"]
    /\ UNCHANGED <<products_df, opVars, t_items, t_k, t_status, t_local, t_tmp>>

InitConc ==
    /\ products_df \in Catalogs
    /\ OrderProcessorInit(products_df)
    /\ calls = 0
    /\ PipelineInit
    /\ StoreInit
    /\ ConcInit

NextConc ==
    \E t \in Threads :
        \/ T_Extract(t) /\ UNCHANGED <<calls, pipeVars, storeVars>>
        \/ T_Match(t) /\ UNCHANGED <<calls, pipeVars, storeVars>>
        \/ T_Load(t) /\ UNCHANGED <<calls, pipeVars, storeVars>>
        \/ T_Store(t) /\ UNCHANGED <<calls, pipeVars, storeVars>>
        \/ T_Return(t) /\ UNCHANGED <<calls, pipeVars, storeVars>>

SpecConc == InitConc /\ [][NextConc]_vars

(***************************************************************************)
(* SpecSystem: an EmailProcessor after construction (main.py:20-31): the   *)
(* order processor holds its copy of the catalog, the inquiry handler has  *)
(* built its vector store from the catalog; then process_order and         *)
(* search_products are called in any order, as the loop of process_emails  *)
(* does for order and inquiry emails.                                      *)
(***************************************************************************)

\* EmailProcessor.__init__: OrderProcessor(self.products_df), then
\* InquiryHandler(self.products_df) whose build_vector_store returned.
InitSystem ==
    /\ products_df = FullCatalog
    /\ OrderProcessorInit(products_df)
    /\ calls = 0
    /\ PipelineInit
    /\ ConcInit
    /\ LET split_docs == SplitDocuments(CreateDocuments(products_df)) IN
          \E embedding \in [DOMAIN split_docs -> Vectors] :
              vector_store = Faiss(FromDocuments(split_docs, embedding))
    /\ store_out = [call |-> "build", kind |-> "returned"]
    /\ built = TRUE
    /\ build_failed = FALSE
    /\ first_search = NoSearch
    /\ repeated = FALSE

\* The quantity of the order lines of this specification: one unit.
UnitQuantities == {1}

\* self.order_processor.process_order(email_id, email_body) is entered.
SystemOrderCall ==
    /\ calls < NumEmails
    /\ calls' = calls + 1
    /\ ExtractOrderItems(calls + 1, UnitQuantities, PipelineMaxLines)
    /\ UNCHANGED <<pipeVars, storeVars, concVars>>

NextSystem ==
    \/ SystemOrderCall
    \/ ProcessLine /\ UNCHANGED <<calls, pipeVars, storeVars, concVars>>
    \/ ReturnOrder /\ UNCHANGED <<calls, pipeVars, storeVars, concVars>>
    \/ SearchProducts /\ UNCHANGED <<products_df, opVars, calls, pipeVars, concVars>>
    \/ SearchRaises /\ UNCHANGED <<products_df, opVars, calls, pipeVars, concVars>>

SpecSystem == InitSystem /\ [][NextSystem]_vars

(***************************************************************************)
(* SpecAnyQuantity: process_order called any number of times (at most      *)
(* NumEmails) on extractions whose quantities are whatever integers the    *)
(* text-generation call answered: extract_order_items returns the parsed   *)
(* JSON as it is (order_processor.py:62-65) and process_order uses         *)
(* item["quantity"] unchecked (line 90).                                   *)
(***************************************************************************)

\* The integer quantities an answer may hold: negative, zero, positive.
AnyQuantities == (0 - MaxQty)..MaxQty

AnyQuantityOrderCall ==
    /\ calls < NumEmails
    /\ calls' = calls + 1
    /\ ExtractOrderItems(calls + 1, AnyQuantities, PipelineMaxLines)
    /\ UNCHANGED <<pipeVars, storeVars, concVars>>

NextAnyQuantity ==
    \/ AnyQuantityOrderCall
    \/ CallProcessOrderRaises
    \/ ProcessLine /\ UNCHANGED <<calls, pipeVars, storeVars, concVars>>
    \/ ReturnOrder /\ UNCHANGED <<calls, pipeVars, storeVars, concVars>>

SpecAnyQuantity == Init /\ [][NextAnyQuantity]_vars

(***************************************************************************)
(* Claims about process_order, checked under Spec.                         *)
(***************************************************************************)

\* The row of the ledger that the line items[kk] resolves to (product.iloc[0]).
ResolvedRow(items, kk) == MatchingRows(op_products_df, items[kk].product_name)[1]

Resolves(items, kk) == MatchingRows(op_products_df, items[kk].product_name) # <<>>

\* The status entry the current iteration appended.
LastEntry(status_list) == status_list[Len(status_list)]

\* C1: starting from a catalog of non-negative stocks, after any sequence of
\* process_order calls with positive quantities, at every point of every call,
\* the stock of every product of the ledger is >= 0.
C1_StockNeverNegative ==
    \A j \in DOMAIN op_products_df : op_products_df[j].stock >= 0

\* C1's case: an allocation took a product's last unit, and a later line for
\* the same product was refused.
C1_Witness ==
    \E j \in DOMAIN op_products_df :
        /\ products_df[j].stock > 0
        /\ op_products_df[j].stock = 0
        /\ \E n \in DOMAIN order_status :
              /\ order_status[n].product_id = op_products_df[j].product_id
              /\ order_status[n].status = "out_of_stock"

\* C2: a product's ledger stock is its initial stock minus the summed quantity
\* of the 'created' entries emitted for it: those of the tables returned so far
\* and those of the call in progress. One 'created' entry is one decrement.
C2_StockIsInitialMinusCreated ==
    \A j \in DOMAIN op_products_df :
        LET p == op_products_df[j].product_id IN
        op_products_df[j].stock =
            products_df[j].stock - allocated[p]
            - (IF op_pc = "loop" THEN SumCreated(order_status, p) ELSE 0)

\* C2's case: a second call is about to return; it and an earlier call both
\* allocated product 1, and it also refused a line.
C2_Witness ==
    /\ AtReturn
    /\ calls > 1
    /\ SumCreated(order_status, 1) > 0
    /\ allocated[1] > 0
    /\ \E n \in DOMAIN order_status : order_status[n].status = "out_of_stock"

\* C3: an iteration on a line that resolves to a product appends one entry; its
\* status is 'created' exactly when the product's stock before the iteration is
\* >= the quantity, 'out_of_stock' otherwise, and an 'out_of_stock' iteration
\* leaves the whole ledger as it was.
C3_StatusFollowsStock ==
    [][ (op_pc = "loop" /\ k <= Len(order_items) /\ Resolves(order_items, k)) =>
          /\ Len(order_status') = Len(order_status) + 1
          /\ LastEntry(order_status').status \in {"created", "out_of_stock"}
          /\ (LastEntry(order_status').status = "created"
                <=> ResolvedRow(order_items, k).stock >= order_items[k].quantity)
          /\ (LastEntry(order_status').status = "out_of_stock"
                => op_products_df' = op_products_df) ]_vars

\* C3's case: a line was 'created' and the next, identical line 'out_of_stock',
\* the stock it left being too small.
C3_Witness ==
    /\ Len(order_status) = 2
    /\ order_status[1].status = "created"
    /\ order_status[2].status = "out_of_stock"
    /\ order_status[1].product_id = order_status[2].product_id
    /\ order_status[1].quantity = order_status[2].quantity
    /\ \E j \in DOMAIN op_products_df :
          /\ op_products_df[j].product_id = order_status[2].product_id
          /\ op_products_df[j].stock > 0

\* C4 (as claimed): the returned status table has one entry per extracted line,
\* an unmatched line giving a 'not_found' entry.
C4_OneStatusPerLine ==
    AtReturn =>
        /\ Len(order_status) = Len(order_items)
        /\ \A n \in DOMAIN order_items :
              MatchingRows(op_products_df, order_items[n].product_name) = <<>>
                  => order_status[n].status = "not_found"

\* The lines of items that resolve to a catalog product, in order.
ResolvingLines(items) ==
    SelectSeq(items, LAMBDA item : MatchingRows(op_products_df, item.product_name) # <<>>)

\* C5: an iteration on a line that matches no product changes no stock and
\* moves on to the next line without raising; the returned table then holds, in
\* order, one allocation decision for every line that does resolve.
C5_UnmatchedLineOnlySkipped ==
    /\ [][ (op_pc = "loop" /\ k <= Len(order_items) /\ ~Resolves(order_items, k)) =>
             /\ op_products_df' = op_products_df
             /\ order_status' = order_status
             /\ op_pc' = "loop"
             /\ k' = k + 1 ]_vars
    /\ [](AtReturn =>
             LET lines == ResolvingLines(order_items) IN
             /\ Len(order_status) = Len(lines)
             /\ \A n \in DOMAIN lines :
                   /\ order_status[n].quantity = lines[n].quantity
                   /\ order_status[n].status \in {"created", "out_of_stock"})

\* C5's case: the first line matched nothing, the second was still allocated,
\* and this in a second call.
C5_Witness ==
    /\ AtReturn
    /\ calls > 1
    /\ Len(order_items) = 2
    /\ ~Resolves(order_items, 1)
    /\ Len(order_status) = 1
    /\ order_status[1].status = "created"

\* The stock of the product of row j left by the 'created' entries of the
\* earlier emails and of the earlier lines of this call.
StockLeft(j) ==
    products_df[j].stock - allocated[products_df[j].product_id]
        - SumCreated(order_status, products_df[j].product_id)

\* C14: a loop iteration takes the line at position k and moves to k + 1,
\* leaving the lines and the entries emitted so far as they are; a line that
\* resolves appends its entry after them, 'created' exactly when the stock left
\* by all earlier lines covers its quantity, and an 'out_of_stock' line takes
\* nothing from the ledger.
C14_LinesInExtractionOrder ==
    [][ (op_pc = "loop" /\ k <= Len(order_items)) =>
          /\ k' = k + 1
          /\ order_items' = order_items
          /\ SubSeq(order_status', 1, Len(order_status)) = order_status
          /\ Resolves(order_items, k) =>
                \E j \in DOMAIN products_df :
                    /\ Lower(products_df[j].name) = Lower(order_items[k].product_name)
                    /\ Len(order_status') = Len(order_status) + 1
                    /\ LastEntry(order_status').product_id = products_df[j].product_id
                    /\ LastEntry(order_status').quantity = order_items[k].quantity
                    /\ (LastEntry(order_status').status = "created"
                          <=> StockLeft(j) >= order_items[k].quantity)
                    /\ (LastEntry(order_status').status = "out_of_stock"
                          => op_products_df' = op_products_df) ]_vars

\* C14's case: in a second call, on a product an earlier email took stock of, a
\* line was refused and the next, smaller line for the same product allocated.
C14_Witness ==
    /\ AtReturn
    /\ calls > 1
    /\ Len(order_status) = 2
    /\ order_status[1].status = "out_of_stock"
    /\ order_status[2].status = "created"
    /\ order_status[1].product_id = order_status[2].product_id
    /\ order_status[2].quantity < order_status[1].quantity
    /\ allocated[order_status[1].product_id] > 0

(***************************************************************************)
(* Claims about process_order on unvalidated quantities, checked under     *)
(* SpecAnyQuantity.                                                        *)
(***************************************************************************)

\* C17 (as claimed): whatever integer quantities the extraction returns, no
\* step of process_order leaves a product's ledger stock greater than it was.
C17_StockNeverIncreases ==
    [][ \A j \in DOMAIN op_products_df :
            op_products_df'[j].stock <= op_products_df[j].stock ]_vars

(***************************************************************************)
(* Claims about process_emails, checked under SpecPipeline.                *)
(***************************************************************************)

\* C9 (as claimed): when the extraction of an order email raises, only that
\* email is given up: the orchestrator goes on to the next email.
C9_ExtractionFailureIsolated ==
    [][ (op_pc # "raised" /\ op_pc' = "raised") =>
          (pc' = "loop" /\ i' = i + 1) ]_vars

\* C10 (as claimed): once process_emails has completed, the order-status file
\* holds entries of every order email whose processing returned entries.
C10_OrderStatusHoldsEveryEmail ==
    pc = "done" =>
        \A e \in status_emails :
            /\ sheets.order_status.exists
            /\ \E n \in DOMAIN sheets.order_status.rows :
                  sheets.order_status.rows[n].email_id = e

Categories == {"order_request", "product_inquiry"}

\* The number of entries of responses that answer email e.
EntriesFor(responses, e) ==
    Cardinality({n \in DOMAIN responses : responses[n].email_id = e})

\* C16: classify_email yields one of the two categories, any other answer
\* giving 'product_inquiry'; once process_emails has completed, every email has
\* one response entry, in the order list when it is an 'order_request' and in
\* the inquiry list otherwise; process_order is entered, and the ledger
\* changed, only for the email at hand when it is an 'order_request'.
C16_OneBranchPerEmail ==
    /\ [](/\ \A raw \in RawLabels :
                /\ ClassifyEmail(raw) \in Categories
                /\ StripLower(raw) \notin Categories
                      => ClassifyEmail(raw) = "product_inquiry"
          /\ \A e \in DOMAIN classifications : classifications[e] \in Categories
          /\ pc = "done" =>
                \A e \in Emails :
                    /\ EntriesFor(order_responses, e)
                          = (IF classifications[e] = "order_request" THEN 1 ELSE 0)
                    /\ EntriesFor(inquiry_responses, e)
                          = (IF classifications[e] = "order_request" THEN 0 ELSE 1))
    /\ [][ (op_products_df' # op_products_df \/ email_id' # email_id) =>
             /\ pc = "loop" \/ pc = "order"
             /\ email_id' = i
             /\ classifications[i] = "order_request" ]_vars

\* C16's case: a completed run with an order email that took stock and an
\* inquiry email, each answered once.
C16_Witness ==
    /\ pc = "done"
    /\ op_products_df # products_df
    /\ Len(order_responses) = 1
    /\ Len(inquiry_responses) = 1

(***************************************************************************)
(* Claims about the vector store, checked under SpecStore.                 *)
(***************************************************************************)

\* C7 (as claimed): a returned result list has at most TOP_K_RESULTS entries
\* and no two of them have the same product_id.
C7_AtMostTopKDistinctProducts ==
    (store_out.call = "search" /\ store_out.kind = "returned") =>
        /\ Len(store_out.results) <= TOP_K_RESULTS
        /\ \A a, b \in DOMAIN store_out.results :
              store_out.results[a].product_id = store_out.results[b].product_id
                  => a = b

\* C8: while no build_vector_store call has completed, the store holds no
\* index, not even after a build that failed, and a search_products call
\* raises the not-initialized error and returns no result.
C8_NotReadyUntilBuilt ==
    ~built =>
        /\ vector_store = None
        /\ store_out.call = "search" =>
              /\ store_out.kind = "raised"
              /\ store_out.error = "ValueError"

\* C8's case: a build raised on a table that has chunks to embed (an embedding
\* failure), no build has completed, and the search after it raised not-ready.
C8_Witness ==
    /\ ~built
    /\ build_failed
    /\ products_df # <<>>
    /\ store_out.call = "search"
    /\ store_out.kind = "raised"

\* C12 (as claimed): with an empty catalog, once build_vector_store has been
\* called, a search_products call returns the empty sequence and raises
\* nothing.
C12_EmptyCatalogSearchReturnsEmpty ==
    ( /\ products_df = <<>>
      /\ built \/ build_failed
      /\ store_out.call = "search" )
        => /\ store_out.kind = "returned"
           /\ store_out.results = <<>>

\* The chunks the latest search retrieved.
Retrieved ==
    SimilaritySearch(vector_store.index, store_out.query, TOP_K_RESULTS)

\* C13 (as claimed): a returned result list is ordered from the nearest chunk
\* to the farthest, and the relevance_score of each result is the distance of
\* the nearest retrieved chunk of its product.
C13_OrderedWithBestScore ==
    (store_out.call = "search" /\ store_out.kind = "returned") =>
        /\ \A a, b \in DOMAIN store_out.results :
              a < b => Distance(Retrieved[a].vector, store_out.query)
                         <= Distance(Retrieved[b].vector, store_out.query)
        /\ \A r \in DOMAIN store_out.results :
              /\ \E c \in DOMAIN Retrieved :
                    /\ Retrieved[c].metadata.product_id = store_out.results[r].product_id
                    /\ store_out.results[r].relevance_score =
                          Distance(Retrieved[c].vector, store_out.query)
              /\ \A c \in DOMAIN Retrieved :
                    Retrieved[c].metadata.product_id = store_out.results[r].product_id
                        => store_out.results[r].relevance_score
                             <= Distance(Retrieved[c].vector, store_out.query)

(***************************************************************************)
(* Claims about the store next to the order processor, checked under       *)
(* SpecSystem.                                                             *)
(***************************************************************************)

C15_StoreHoldsBuildTimeSnapshot ==
    /\ []((store_out.call = "search" /\ store_out.kind = "returned") =>
             \A r \in DOMAIN store_out.results :
                 \E j \in DOMAIN FullCatalog :
                     /\ FullCatalog[j].product_id = store_out.results[r].product_id
                     /\ FullCatalog[j].name = store_out.results[r].name
                     /\ FullCatalog[j].stock = store_out.results[r].stock)
    /\ [][ opVars' # opVars =>
             /\ vector_store' = vector_store
             /\ products_df' = products_df ]_vars

\* C15's case: a search returned a product after a process_order call that
\* took stock of it had returned: the stock reported is the build-time one.
C15_Witness ==
    /\ store_out.call = "search"
    /\ store_out.kind = "returned"
    /\ op_pc = "idle"
    /\ \E r \in DOMAIN store_out.results :
          /\ allocated[store_out.results[r].product_id] > 0
          /\ store_out.results[r].stock
                = LedgerStock(store_out.results[r].product_id)
                    + allocated[store_out.results[r].product_id]

(***************************************************************************)
(* Claims about interleaved process_order calls, checked under SpecConc.   *)
(***************************************************************************)

\* C6 (as claimed): however two process_order executions on one ledger are
\* interleaved, the quantity marked 'created' for a product never exceeds its
\* initial stock, and no stock is negative.
C6_NoOversellWhenInterleaved ==
    \A j \in DOMAIN op_products_df :
        /\ op_products_df[j].stock >= 0
        /\ SumCreated(t_status[1], op_products_df[j].product_id)
             + SumCreated(t_status[2], op_products_df[j].product_id)
               <= products_df[j].stock

====
